---- MODULE Spec2Model ----
(***************************************************************************)
(* VibeSniff Lite: the suspicion scoring engine of VibeSniffScanner.scan   *)
(* and the three domain signal providers it awaits (WHOIS domain age, TLS  *)
(* certificate age, Wayback first-seen).                                   *)
(*                                                                         *)
(* JavaScript numbers are IEEE-754 doubles.  The score is a sum of decimal *)
(* literals (0.35, 0.20, ...) none of which is a binary fraction, so the   *)
(* additions round.  Doubles are modelled exactly: a double in [0, 128) is *)
(* a natural number of units of 2^-56, held as five little-endian limbs of *)
(* 14 bits, and every arithmetic result is rounded to 53 significant bits, *)
(* ties to even, as the hardware does.                                     *)
(***************************************************************************)
EXTENDS Integers, Sequences, FiniteSets, TLC

VARIABLES
    pc,         \* position of the scan call
    pageOpen,   \* the puppeteer page of the scan is open
    features,   \* what the DOM analysis of scan found on the page
    promise,    \* the promises of the three lookups handed to Promise.all
    socket,     \* the TLS socket of getTLSAge
    reply,      \* what each external service answered (history)
    signals,    \* [domainAge, tlsAge, waybackFirstSeen] as destructured by scan
    result,     \* the object scan returns
    url,        \* the URL text handed to scan or to getETLDPlusOne
    pageETLD,   \* what getETLDPlusOne returned for it
    dom,        \* the action attribute of the form around each password input
    history,    \* the earlier scans of this scanner: inputs and results
    browser,    \* scanner.browser
    scannerScan, \* the function held by the property scanner.scan (server.js)
    requests    \* the GET /scan requests of the server

\* the state outside one scan call: left alone by the steps of scan itself
shell == <<url, pageETLD, dom, history, browser, scannerScan, requests>>

vars == <<pc, pageOpen, features, promise, socket, reply, signals, result, shell>>

\* JavaScript values a lookup yields: null, NaN or an integer
Null == [kind |-> "null", v |-> 0]
NaN == [kind |-> "NaN", v |-> 0]
Num(n) == [kind |-> "number", v |-> n]
IsNull(x) == x.kind = "null"

Min(a, b) == IF a < b THEN a ELSE b
\* x < k on a JavaScript number: false for NaN
Less(x, k) == x.kind = "number" /\ x.v < k

\* ------------------------------------------------------------------------
\* IEEE-754 double arithmetic on limb sequences
\* ------------------------------------------------------------------------
Base == 2^14

Zero == <<0, 0, 0, 0, 0>>
One == <<0, 0, 0, 0, 1>>
NLimbs == Len(Zero)

\* exact sum of two limb sequences
RECURSIVE AddFrom(_, _, _, _)
AddFrom(a, b, i, carry) ==
    IF i > NLimbs THEN <<>>
    ELSE CHOOSE r \in {<<s % Base>> \o AddFrom(a, b, i + 1, s \div Base) :
                         s \in {a[i] + b[i] + carry}} : TRUE

ExactAdd(a, b) == CHOOSE r \in {AddFrom(x, y, 1, 0) : x \in {a}, y \in {b}} : TRUE

\* exact product of a limb sequence and a small natural
RECURSIVE MulFrom(_, _, _, _)
MulFrom(a, k, i, carry) ==
    IF i > NLimbs THEN <<>>
    ELSE CHOOSE r \in {<<p % Base>> \o MulFrom(a, k, i + 1, p \div Base) :
                         p \in {a[i] * k + carry}} : TRUE

ExactMul(a, k) == CHOOSE r \in {MulFrom(x, k, 1, 0) : x \in {a}} : TRUE

RECURSIVE BitLen(_)
BitLen(n) == IF n = 0 THEN 0 ELSE 1 + BitLen(n \div 2)

RECURSIVE TopLimb(_, _)
TopLimb(a, i) == IF i = 0 THEN 0 ELSE IF a[i] # 0 THEN i ELSE TopLimb(a, i - 1)

NumBits(a) ==
    LET t == TopLimb(a, NLimbs)
    IN  IF t = 0 THEN 0 ELSE 14 * (t - 1) + BitLen(a[t])

\* a with its lowest bits below unit = 2^drop rounded away, ties to even
RoundAt(a, unit) ==
    LET r == a[1] % unit
        odd == (a[1] \div unit) % 2 = 1
        down == [a EXCEPT ![1] = a[1] - r]
        up == ExactAdd(down, [Zero EXCEPT ![1] = unit])
    IN  IF 2 * r > unit \/ (2 * r = unit /\ odd) THEN up ELSE down

\* round to 53 significant bits, ties to even; the dropped bits always lie
\* in the lowest limb for the magnitudes that occur (fewer than 14 of them)
RoundToDouble(a) ==
    CHOOSE r \in {IF drop <= 0 THEN a ELSE RoundAt(a, 2^drop) :
                   drop \in {NumBits(a) - 53}} : TRUE

\* a + b and a * k as JavaScript computes them.  (TLC evaluates the arguments
\* of an operator by name; here and below an intermediate value is bound as
\* the element of a one-element set, so that it is computed once.)
FAdd(a, b) == CHOOSE r \in {RoundToDouble(s) : s \in {ExactAdd(a, b)}} : TRUE
FMul(a, k) == CHOOSE r \in {RoundToDouble(p) : p \in {ExactMul(a, k)}} : TRUE

RECURSIVE GreaterFrom(_, _, _)
GreaterFrom(a, b, i) ==
    IF i = 0 THEN FALSE
    ELSE IF a[i] # b[i] THEN a[i] > b[i]
    ELSE GreaterFrom(a, b, i - 1)

\* a > b
FGreater(a, b) == GreaterFrom(a, b, NLimbs)

\* the first argument whatever the second
MathMinFirst(a, b) == a

\* Math.min(a, b)
MathMin(a, b) == IF FGreater(a, b) THEN b ELSE a

\* Math.round(a): the integer nearest a, halves upward
MathRound(a) == ExactAdd(a, [Zero EXCEPT ![NLimbs - 1] = Base \div 2])[NLimbs]

\* ------------------------------------------------------------------------
\* The scoring rules of scan
\* ------------------------------------------------------------------------
\* the weight literals, as the doubles nearest them
W035 == <<6552, 9830, 6553, 5734, 0>>
W015 == <<9830, 6553, 9830, 2457, 0>>
W020 == <<13108, 3276, 13107, 3276, 0>>
W025 == <<0, 0, 0, 4096, 0>>
W010 == <<6554, 9830, 6553, 1638, 0>>
\* the threshold literals 0.7 and 0.4
T07 == <<13104, 3276, 13107, 11468, 0>>
T04 == <<9832, 6553, 9830, 6553, 0>>

\* riskFactors.unshift where the rules have riskFactors.push
FireUnshifts(acc, w, text, factor, value) ==
    [score |-> FAdd(acc.score, w),
     reasons |-> Append(acc.reasons, [text |-> text, value |-> value]),
     riskFactors |-> <<[factor |-> factor, weight |-> w, value |-> value]>>
                     \o acc.riskFactors]

\* score += w; reasons.push(text); riskFactors.push({factor, weight, value})
Fire(acc, w, text, factor, value) ==
    [score |-> FAdd(acc.score, w),
     reasons |-> Append(acc.reasons, [text |-> text, value |-> value]),
     riskFactors |-> Append(acc.riskFactors,
                            [factor |-> factor, weight |-> w, value |-> value])]

\* the second branch as an if of its own instead of an else if
DomainAgeRuleTwoIfs(acc, domainAge) ==
    LET first == IF ~IsNull(domainAge) /\ Less(domainAge, 7)
                 THEN Fire(acc, W035, "Domain age is ${domainAge} days (suspicious if < 7)",
                           "New Domain", domainAge)
                 ELSE acc
    IN  IF ~IsNull(domainAge) /\ Less(domainAge, 30)
        THEN Fire(first, W015, "Domain age is ${domainAge} days (somewhat new)",
                  "Recent Domain", domainAge)
        ELSE first

DomainAgeRule(acc, domainAge) ==
    IF ~IsNull(domainAge) /\ Less(domainAge, 7)
    THEN Fire(acc, W035, "Domain age is ${domainAge} days (suspicious if < 7)",
              "New Domain", domainAge)
    ELSE IF ~IsNull(domainAge) /\ Less(domainAge, 30)
    THEN Fire(acc, W015, "Domain age is ${domainAge} days (somewhat new)",
              "Recent Domain", domainAge)
    ELSE acc

TLSAgeRule(acc, tlsAge) ==
    IF ~IsNull(tlsAge) /\ Less(tlsAge, 7)
    THEN Fire(acc, W020, "TLS certificate age is ${tlsAge} days (suspicious if < 7)",
              "New Certificate", tlsAge)
    ELSE acc

\* the password rule as the else branch of the mismatch rule
PasswordFormRuleUnlessMismatch(acc, f) ==
    IF f.hasPasswordForm /\ ~f.hasActionMismatch
    THEN Fire(acc, W020, "Contains password form", "Password Form", Num(1))
    ELSE acc

PasswordFormRule(acc, f) ==
    IF f.hasPasswordForm
    THEN Fire(acc, W020, "Contains password form", "Password Form", Num(1))
    ELSE acc

ActionMismatchRule(acc, f) ==
    IF f.hasActionMismatch
    THEN Fire(acc, W025, "Password form action points to different domain",
              "Action Mismatch", Num(1))
    ELSE acc

SuspiciousFormsRule(acc, f) ==
    IF Len(f.suspiciousFormPatterns) > 0
    THEN Fire(acc, W015, "Suspicious form patterns: ${suspiciousFormPatterns.join(', ')}",
              "Suspicious Forms", Num(Len(f.suspiciousFormPatterns)))
    ELSE acc

ExternalHostsRule(acc, f) ==
    IF f.externalHostsCount > 8
    THEN Fire(acc, W010,
              "High number of external hosts: ${externalHostsCount} (suspicious if > 8)",
              "High External Hosts", Num(f.externalHostsCount))
    ELSE acc

\* the keyword rule with the weight of its neighbours
KeywordsRuleWrongWeight(acc, f) ==
    IF f.foundSuspiciousKeywords > 3
    THEN Fire(acc, W010,
              "High number of suspicious keywords: ${foundSuspiciousKeywords.length}",
              "Suspicious Keywords", Num(f.foundSuspiciousKeywords))
    ELSE acc

KeywordsRule(acc, f) ==
    IF f.foundSuspiciousKeywords > 3
    THEN Fire(acc, W015,
              "High number of suspicious keywords: ${foundSuspiciousKeywords.length}",
              "Suspicious Keywords", Num(f.foundSuspiciousKeywords))
    ELSE acc

\* score = 0.10 where the rule has score += 0.10
LinkPatternsRuleAssigns(acc, f) ==
    IF f.suspiciousLinkPatterns > 0
    THEN [Fire(acc, W010,
               "Suspicious link patterns detected: ${suspiciousLinkPatterns.length}",
               "Suspicious Links", Num(f.suspiciousLinkPatterns))
          EXCEPT !.score = W010]
    ELSE acc

LinkPatternsRule(acc, f) ==
    IF f.suspiciousLinkPatterns > 0
    THEN Fire(acc, W010,
              "Suspicious link patterns detected: ${suspiciousLinkPatterns.length}",
              "Suspicious Links", Num(f.suspiciousLinkPatterns))
    ELSE acc

PopupRedirectRule(acc, f) ==
    IF f.hasPopups \/ f.hasRedirects
    THEN Fire(acc, W010, "Contains popup or redirect scripts", "Popups/Redirects", Num(1))
    ELSE acc

IframesRule(acc, f) ==
    IF f.suspiciousIframes > 0
    THEN Fire(acc, W010, "Suspicious iframes detected: ${suspiciousIframes.length}",
              "Suspicious Iframes", Num(f.suspiciousIframes))
    ELSE acc

\* riskFactors kept on the scanner and not emptied between scans
ApplyRulesCarryOver(f, domainAge, tlsAge) ==
    LET a0 == {[score |-> Zero, reasons |-> <<>>,
                riskFactors |-> IF history = <<>> THEN <<>>
                                ELSE history[Len(history)].result.riskFactors]}
        a1 == {DomainAgeRule(a, domainAge) : a \in a0}
        a2 == {TLSAgeRule(a, tlsAge) : a \in a1}
        a3 == {PasswordFormRule(a, f) : a \in a2}
        a4 == {ActionMismatchRule(a, f) : a \in a3}
        a5 == {SuspiciousFormsRule(a, f) : a \in a4}
        a6 == {ExternalHostsRule(a, f) : a \in a5}
        a7 == {KeywordsRule(a, f) : a \in a6}
        a8 == {LinkPatternsRule(a, f) : a \in a7}
        a9 == {PopupRedirectRule(a, f) : a \in a8}
    IN  CHOOSE r \in {IframesRule(a, f) : a \in a9} : TRUE

\* let score = 0; const reasons = []; const riskFactors = []; then the rules in order
ApplyRules(f, domainAge, tlsAge) ==
    LET a0 == {[score |-> Zero, reasons |-> <<>>, riskFactors |-> <<>>]}
        a1 == {DomainAgeRule(a, domainAge) : a \in a0}
        a2 == {TLSAgeRule(a, tlsAge) : a \in a1}
        a3 == {PasswordFormRule(a, f) : a \in a2}
        a4 == {ActionMismatchRule(a, f) : a \in a3}
        a5 == {SuspiciousFormsRule(a, f) : a \in a4}
        a6 == {ExternalHostsRule(a, f) : a \in a5}
        a7 == {KeywordsRule(a, f) : a \in a6}
        a8 == {LinkPatternsRule(a, f) : a \in a7}
        a9 == {PopupRedirectRule(a, f) : a \in a8}
    IN  CHOOSE r \in {IframesRule(a, f) : a \in a9} : TRUE

\* the cap forgotten
CapScoreMissing(score) == score

\* score = Math.min(score, 1.0)
CapScore(score) == MathMin(score, One)

\* let riskLevel = 'LOW'; if (score > 0.7) ... else if (score > 0.4) ...
RiskLevel(score) ==
    IF FGreater(score, T07) THEN "HIGH"
    ELSE IF FGreater(score, T04) THEN "MEDIUM"
    ELSE "LOW"

\* no fallback reason
WithFallbackMissing(reasons) == reasons

\* if (reasons.length === 0) reasons.push('No obvious suspicious patterns detected')
FallbackReason == [text |-> "No obvious suspicious patterns detected", value |-> Null]
WithFallback(reasons) ==
    IF Len(reasons) = 0 THEN Append(reasons, FallbackReason) ELSE reasons

\* Math.round(score * 100) / 100.  The quotient n / 100 is the double nearest the
\* decimal n/100, so the field is held as the integer n of hundredths: the
\* double n / 100 exceeds the literal 0.7 (0.4) exactly when n > 70 (40).
ReportedScore(score) == MathRound(FMul(score, 100))

\* a page never archived rated HIGH
ScoreObjectArchiveRated(acc, score, sig) ==
    [score |-> ReportedScore(score),
     riskLevel |-> IF sig.waybackFirstSeen = Null THEN "HIGH" ELSE RiskLevel(score),
     reasons |-> WithFallback(acc.reasons),
     riskFactors |-> acc.riskFactors,
     domainAgeDays |-> sig.domainAge,
     tlsAgeDays |-> sig.tlsAge,
     waybackFirstSeenDays |-> sig.waybackFirstSeen]

\* the object scan returns (the fields the scoring engine fills)
ScoreObject(acc, score, sig) ==
    [score |-> ReportedScore(score),
     riskLevel |-> RiskLevel(score),
     reasons |-> WithFallback(acc.reasons),
     riskFactors |-> acc.riskFactors,
     domainAgeDays |-> sig.domainAge,
     tlsAgeDays |-> sig.tlsAge,
     waybackFirstSeenDays |-> sig.waybackFirstSeen]

\* the rules, the cap, the risk level, the fallback reason, the return
ScoreResult(f, sig) ==
    LET accs == {ApplyRules(f, sig.domainAge, sig.tlsAge)}
        capped == {<<a, CapScore(a.score)>> : a \in accs}
    IN  CHOOSE r \in {ScoreObject(c[1], c[2], sig) : c \in capped} : TRUE

\* ------------------------------------------------------------------------
\* Dates and the age computation shared by the three lookups
\* ------------------------------------------------------------------------
\* (1000 * 60 * 60 * 24): milliseconds per day
MsPerDay == 1000 * 60 * 60 * 24

\* new Date(): the current time, in ms since a UTC midnight shortly before
Now == 12 * MsPerDay + MsPerDay \div 2

\* how far the reference dates of the replies lie before and after Now
MaxPastDays == 8
MaxFutureDays == 2
Times ==
    {Now - d * MsPerDay - o : d \in (0 - MaxFutureDays)..MaxPastDays, o \in {0, 1}}

\* a string field of a reply: missing/empty, a date Date can parse, or other text
Absent == [kind |-> "absent", t |-> 0]
DateStr(t) == [kind |-> "date", t |-> t]
Garbage == [kind |-> "garbage", t |-> 0]
Truthy(x) == x.kind # "absent"
\* a || b
OrElse(a, b) == IF Truthy(a) THEN a ELSE b

\* the difference without Math.abs
AbsDiffSigned(now, t) == now - t

\* Math.abs(now - date) for a valid Date
AbsDiff(now, t) == IF now - t < 0 THEN t - now ELSE now - t

\* Math.ceil(diffTime / (1000 * 60 * 60 * 24))
CeilDays(diffTime) ==
    (diffTime \div MsPerDay) + (IF diffTime % MsPerDay = 0 THEN 0 ELSE 1)

\* const d = new Date(str); Math.ceil(Math.abs(now - d) / day): NaN for an
\* Invalid Date
AgeInDays(str, now) ==
    IF str.kind = "date" THEN Num(CeilDays(AbsDiff(now, str.t))) ELSE NaN

\* a settled promise
Unstarted == [state |-> "unstarted", value |-> Null]
Pending == [state |-> "pending", value |-> Null]
Fulfilled(v) == [state |-> "fulfilled", value |-> v]
Rejected == [state |-> "rejected", value |-> Null]

NoReply == [kind |-> "none"]

\* ------------------------------------------------------------------------
\* getDomainAge
\* ------------------------------------------------------------------------
\* what whois(domain) yields: a rejection, or a record of optional fields
WhoisError == [kind |-> "error", creationDate |-> Absent, registered |-> Absent,
               created |-> Absent]
WhoisRecord(a, b, c) ==
    [kind |-> "record", creationDate |-> a, registered |-> b, created |-> c]

\* the fields tried in another order
CreationDateRegisteredFirst(r) == OrElse(r.registered, OrElse(r.creationDate, r.created))

\* result.creationDate || result.registered || result.created
CreationDate(r) == OrElse(r.creationDate, OrElse(r.registered, r.created))

\* getDomainAge without its try/catch: a failed whois rejects the promise
GetDomainAgeNoCatch(r) ==
    IF r.kind = "error" THEN Rejected
    ELSE IF Truthy(OrElse(r.creationDate, OrElse(r.registered, r.created)))
    THEN Fulfilled(AgeInDays(OrElse(r.creationDate, OrElse(r.registered, r.created)), Now))
    ELSE Fulfilled(Null)

\* the body of getDomainAge once whois has settled with r
GetDomainAge(r) ==
    IF r.kind = "error" THEN Fulfilled(Null)
    ELSE IF Truthy(CreationDate(r))
    THEN Fulfilled(AgeInDays(CreationDate(r), Now))
    ELSE Fulfilled(Null)

\* ------------------------------------------------------------------------
\* getWaybackFirstSeen
\* ------------------------------------------------------------------------
\* what fetch(...).json() yields: a rejection, or the CDX array: a header row
\* and at most one capture row, whose second column is the capture timestamp
CdxError == [kind |-> "error", rows |-> 0, timestamp |-> Absent]
CdxData(n, ts) == [kind |-> "data", rows |-> n, timestamp |-> ts]

\* substring(0,4) + '-' + substring(4,6) + '-' + substring(6,8): the UTC
\* midnight of the day of the capture
CaptureDay(ts) ==
    IF ts.kind = "date" THEN DateStr(ts.t - (ts.t % MsPerDay)) ELSE ts

GetWaybackFirstSeen(r) ==
    IF r.kind = "error" THEN Fulfilled(Null)
    ELSE IF r.rows > 1 /\ Truthy(r.timestamp)
    THEN Fulfilled(AgeInDays(CaptureDay(r.timestamp), Now))
    ELSE Fulfilled(Null)

\* ------------------------------------------------------------------------
\* getTLSAge: callbacks on the socket; each runs to completion
\* ------------------------------------------------------------------------
\* socket.getPeerCertificate(): nothing, or an object whose valid_from may miss
NoCert == [present |-> FALSE, valid_from |-> Absent]
Cert(vf) == [present |-> TRUE, valid_from |-> vf]

\* a promise that every call of resolve settles anew
ResolveAgain(p, v) == Fulfilled(v)

\* resolve(v): only the first call settles the promise
Resolve(p, v) == IF p.state = "pending" THEN Fulfilled(v) ELSE p

\* the secureConnect callback: resolve(ageInDays) or resolve(null), socket.end()
OnSecureConnect(p, cert) ==
    [promise |-> IF cert.present /\ Truthy(cert.valid_from)
                 THEN Resolve(p, AgeInDays(cert.valid_from, Now))
                 ELSE Resolve(p, Null),
     socket |-> "ended"]

\* socket.on('error'): node has destroyed the socket when it emits 'error'
OnError(p) == [promise |-> Resolve(p, Null), socket |-> "destroyed"]

\* the timeout callback without socket.destroy()
OnTimeoutNoDestroy(p) == [promise |-> Resolve(p, Null), socket |-> socket]

\* socket.setTimeout(5000, ...): socket.destroy(); resolve(null)
OnTimeout(p) == [promise |-> Resolve(p, Null), socket |-> "destroyed"]

\* the executor of new Promise: connect(...) returns a socket, or throws and the
\* catch resolves null
CallGetTLSAge(connectThrows) ==
    IF connectThrows
    THEN [promise |-> Fulfilled(Null), socket |-> "none"]
    ELSE [promise |-> Pending, socket |-> "connecting"]

\* ------------------------------------------------------------------------
\* State
\* ------------------------------------------------------------------------
Lookups == {"domainAge", "tlsAge", "waybackFirstSeen"}

NoFeatures == [kind |-> "none"]
NoSignals == [kind |-> "none"]
NoResult == [kind |-> "none"]

NoPromises == [l \in Lookups |-> Unstarted]
NoReplies == [whois |-> NoReply, tls |-> NoReply, wayback |-> NoReply]

\* ------------------------------------------------------------------------
\* The inputs
\* ------------------------------------------------------------------------
MaxExternalHosts == 9
MaxKeywords == 4

GetMethodPattern == "Password form uses GET method"
ActionPattern == "Suspicious form action detected"

\* every outcome of the DOM analysis that bears on a rule: a form action can
\* mismatch only on a page with a password input, and the GET pattern is
\* pushed only when hasPasswordForm
FeatureSet ==
    {f \in [hasPasswordForm : BOOLEAN,
            hasActionMismatch : BOOLEAN,
            suspiciousFormPatterns : {<<>>, <<GetMethodPattern>>, <<ActionPattern>>,
                                      <<GetMethodPattern, ActionPattern>>},
            externalHostsCount : 8..MaxExternalHosts,
            foundSuspiciousKeywords : 3..MaxKeywords,
            suspiciousLinkPatterns : 0..1,
            hasPopups : BOOLEAN,
            hasRedirects : BOOLEAN,
            suspiciousIframes : 0..1] :
        /\ f.hasActionMismatch => f.hasPasswordForm
        /\ (Len(f.suspiciousFormPatterns) > 0
              /\ f.suspiciousFormPatterns[1] = GetMethodPattern) => f.hasPasswordForm}

SignalSet ==
    [domainAge : {Null, NaN, Num(6), Num(7), Num(29), Num(30)},
     tlsAge : {Null, Num(6), Num(7)},
     waybackFirstSeen : {Null, Num(400)}]

\* the pages of the scan pipeline: a few analyses are enough there
ScanFeatures ==
    {f \in FeatureSet :
        /\ f.suspiciousFormPatterns = <<>>
        /\ f.externalHostsCount = 8
        /\ f.suspiciousLinkPatterns = 0
        /\ ~f.hasPopups /\ ~f.hasRedirects
        /\ f.suspiciousIframes = 0}

DaysAgo(d) == DateStr(Now - d * MsPerDay)

AllWhois ==
    {WhoisError} \cup
    {WhoisRecord(a, b, c) : a, b, c \in {Absent, Garbage} \cup {DateStr(t) : t \in Times}}
AllCerts == {NoCert, Cert(Absent)} \cup {Cert(DateStr(t)) : t \in Times}
AllCdx ==
    {CdxError, CdxData(0, Absent), CdxData(1, Absent), CdxData(2, Absent)}
    \cup {CdxData(2, DateStr(t)) : t \in Times}

ScanWhois ==
    {WhoisError, WhoisRecord(Absent, Absent, Absent),
     WhoisRecord(DaysAgo(3), Absent, DaysAgo(MaxPastDays)),
     WhoisRecord(Absent, DaysAgo(MaxPastDays), Absent)}
ScanCerts == {NoCert, Cert(Absent), Cert(DaysAgo(2)), Cert(DaysAgo(MaxPastDays))}
ScanCdx == {CdxError, CdxData(0, Absent), CdxData(2, DaysAgo(MaxPastDays))}

\* ------------------------------------------------------------------------
\* The lookups as steps: a call, then the service's answer
\* ------------------------------------------------------------------------
Idle == \A l \in Lookups : promise[l].state = "unstarted"

\* getDomainAge(domain) up to await whois(domain)
CallDomainAge ==
    /\ pc = "lookup" /\ Idle
    /\ promise' = [promise EXCEPT !.domainAge = Pending]
    /\ UNCHANGED <<pc, pageOpen, features, socket, reply, signals, result, shell>>

\* whois settles and getDomainAge runs to its return
WhoisSettles(R) ==
    /\ promise.domainAge.state = "pending"
    /\ \E r \in R :
         /\ reply' = [reply EXCEPT !.whois = r]
         /\ promise' = [promise EXCEPT !.domainAge = GetDomainAge(r)]
    /\ UNCHANGED <<pc, pageOpen, features, socket, signals, result, shell>>

\* getWaybackFirstSeen(domain) up to await fetch(...)
CallWayback ==
    /\ pc = "lookup" /\ Idle
    /\ promise' = [promise EXCEPT !.waybackFirstSeen = Pending]
    /\ UNCHANGED <<pc, pageOpen, features, socket, reply, signals, result, shell>>

\* fetch and response.json() settle and getWaybackFirstSeen runs to its return
WaybackSettles(R) ==
    /\ promise.waybackFirstSeen.state = "pending"
    /\ \E r \in R :
         /\ reply' = [reply EXCEPT !.wayback = r]
         /\ promise' = [promise EXCEPT !.waybackFirstSeen = GetWaybackFirstSeen(r)]
    /\ UNCHANGED <<pc, pageOpen, features, socket, signals, result, shell>>

\* the event that settled getTLSAge's promise, for the record
TlsReply(kind, cert) ==
    IF promise.tlsAge.state \in {"unstarted", "pending"}
    THEN [reply EXCEPT !.tls = [kind |-> kind, cert |-> cert]]
    ELSE reply

\* getTLSAge(hostname): the promise executor
CallTLS ==
    /\ pc = "lookup" /\ Idle
    /\ \E connectThrows \in BOOLEAN :
         LET o == CallGetTLSAge(connectThrows)
         IN  /\ promise' = [promise EXCEPT !.tlsAge = o.promise]
             /\ socket' = o.socket
             /\ reply' = IF connectThrows THEN TlsReply("connectThrew", NoCert) ELSE reply
    /\ UNCHANGED <<pc, pageOpen, features, signals, result, shell>>

\* the TLS handshake completes
TlsSecureConnect(C) ==
    /\ socket = "connecting"
    /\ \E cert \in C :
         LET o == OnSecureConnect(promise.tlsAge, cert)
         IN  /\ promise' = [promise EXCEPT !.tlsAge = o.promise]
             /\ socket' = o.socket
             /\ reply' = TlsReply("secureConnect", cert)
    /\ UNCHANGED <<pc, pageOpen, features, signals, result, shell>>

\* the connection fails, before the handshake or after end()
TlsError ==
    /\ socket \in {"connecting", "ended"}
    /\ LET o == OnError(promise.tlsAge)
       IN  /\ promise' = [promise EXCEPT !.tlsAge = o.promise]
           /\ socket' = o.socket
           /\ reply' = TlsReply("error", NoCert)
    /\ UNCHANGED <<pc, pageOpen, features, signals, result, shell>>

\* 5000 ms pass without activity on the socket
TlsTimeout ==
    /\ socket \in {"connecting", "ended"}
    /\ LET o == OnTimeout(promise.tlsAge)
       IN  /\ promise' = [promise EXCEPT !.tlsAge = o.promise]
           /\ socket' = o.socket
           /\ reply' = TlsReply("timeout", NoCert)
    /\ UNCHANGED <<pc, pageOpen, features, signals, result, shell>>

\* the peer answers the end() and the socket closes
TlsClose ==
    /\ socket = "ended"
    /\ socket' = "closed"
    /\ UNCHANGED <<pc, pageOpen, features, promise, reply, signals, result, shell>>

\* ------------------------------------------------------------------------
\* scan(url)
\* ------------------------------------------------------------------------
\* const page = await this.browser.newPage()
NewPage ==
    /\ pc = "start"
    /\ \E ok \in BOOLEAN :
         /\ pc' = IF ok THEN "goto" ELSE "threw"
         /\ pageOpen' = ok
    /\ UNCHANGED <<features, promise, socket, reply, signals, result, shell>>

\* await page.goto(url, ...)
Goto ==
    /\ pc = "goto"
    /\ \E ok \in BOOLEAN : pc' = IF ok THEN "screenshot" ELSE "failing"
    /\ UNCHANGED <<pageOpen, features, promise, socket, reply, signals, result, shell>>

\* await page.screenshot(...)
Screenshot ==
    /\ pc = "screenshot"
    /\ \E ok \in BOOLEAN : pc' = IF ok THEN "content" ELSE "failing"
    /\ UNCHANGED <<pageOpen, features, promise, socket, reply, signals, result, shell>>

\* the lookups awaited one by one: only the first is started
StartLookupsOneByOne(connectThrows) ==
    [promise |-> [domainAge |-> Pending, tlsAge |-> Unstarted,
                  waybackFirstSeen |-> Unstarted],
     socket |-> "none"]

\* Promise.all([this.getDomainAge(domain), this.getTLSAge(domain),
\*              this.getWaybackFirstSeen(domain)]): the three calls are made one
\* after the other, each returning its promise at once
StartLookups(connectThrows) ==
    LET tls == CallGetTLSAge(connectThrows)
    IN  [promise |-> [domainAge |-> Pending, tlsAge |-> tls.promise,
                      waybackFirstSeen |-> Pending],
         socket |-> tls.socket]

\* await page.content() fails
ContentFails ==
    /\ pc = "content"
    /\ pc' = "failing"
    /\ UNCHANGED <<pageOpen, features, promise, socket, reply, signals, result, shell>>

\* await page.content(), the DOM analysis, and the call of Promise.all
Analyse(F) ==
    /\ pc = "content"
    /\ \E f \in F, connectThrows \in BOOLEAN :
         LET o == StartLookups(connectThrows)
         IN  /\ features' = f
             /\ promise' = o.promise
             /\ socket' = o.socket
             /\ reply' = IF connectThrows THEN TlsReply("connectThrew", NoCert) ELSE reply
    /\ pc' = "lookups"
    /\ UNCHANGED <<pageOpen, signals, result, shell>>

\* Promise.all settles: fulfilled once all three are, rejected once one is
AllSettled(p) ==
    \/ \A l \in Lookups : p[l].state = "fulfilled"
    \/ \E l \in Lookups : p[l].state = "rejected"

\* const [domainAge, tlsAge, waybackFirstSeen] = await Promise.all([...]), the
\* scoring, and the return statement up to the finally block
AwaitAll ==
    /\ pc = "lookups"
    /\ AllSettled(promise)
    /\ LET rejected == \E l \in Lookups : promise[l].state = "rejected"
           values == [l \in Lookups |-> promise[l].value]
       IN  /\ pc' = IF rejected THEN "failing" ELSE "closing"
           /\ signals' = IF rejected THEN signals ELSE values
           /\ result' = IF rejected THEN result ELSE ScoreResult(features, values)
    /\ UNCHANGED <<pageOpen, features, promise, socket, reply, shell>>

\* finally { await page.close() }
ClosePage ==
    /\ pc \in {"closing", "failing"}
    /\ pageOpen' = FALSE
    /\ pc' = IF pc = "closing" THEN "done" ELSE "threw"
    /\ UNCHANGED <<features, promise, socket, reply, signals, result, shell>>

\* ------------------------------------------------------------------------
\* URL texts, new URL(...) and getETLDPlusOne
\* ------------------------------------------------------------------------
\* A URL text by what the URL parser makes of it.  A hostname is a sequence
\* of characters, "." among them; a longer token stands for a run of
\* characters without a dot.
AbsoluteUrl(scheme, host) == [kind |-> "absolute", scheme |-> scheme, host |-> host]
\* javascript:..., mailto:..., data:..., about:blank: parsed, hostname ''
OpaqueUrl(scheme) == [kind |-> "opaque", scheme |-> scheme, host |-> <<>>]
\* '/login', 'login.php': a reference that needs a base
RelativeRef == [kind |-> "relative", scheme |-> "", host |-> <<>>]
\* 'http://', 'not a url': no parse with or without a base
MalformedText == [kind |-> "malformed", scheme |-> "", host |-> <<>>]
EmptyText == [kind |-> "empty", scheme |-> "", host |-> <<>>]
\* form.attr('action') of a form without the attribute, or of no form
NoAttr == [kind |-> "undefined", scheme |-> "", host |-> <<>>]
\* new URL(text) with one argument
NoBase == [kind |-> "nobase", scheme |-> "", host |-> <<>>]

Throws == [ok |-> FALSE, hostname |-> <<>>, href |-> MalformedText]
Parsed(u) == [ok |-> TRUE, hostname |-> u.host, href |-> u]

\* new URL(text, base): a TypeError for a special scheme without a host, for
\* a reference without a hierarchical base and for malformed text
NewURL(text, base) ==
    CASE text.kind = "absolute" -> IF text.host = <<>> THEN Throws ELSE Parsed(text)
      [] text.kind = "opaque" -> Parsed(text)
      [] text.kind \in {"relative", "empty"} ->
            IF base.kind = "absolute" /\ base.host # <<>> THEN Parsed(base) ELSE Throws
      [] OTHER -> Throws

\* a JavaScript string value
Str(s) == [kind |-> "string", v |-> s]
\* if (s): neither null/undefined nor ''
TruthyStr(x) == x.kind = "string" /\ x.v # <<>>

\* hostname.split('.'): the parts between the dots, [''] for ''
RECURSIVE SplitFrom(_, _, _, _)
SplitFrom(h, i, part, parts) ==
    IF i > Len(h) THEN Append(parts, part)
    ELSE IF h[i] = "." THEN SplitFrom(h, i + 1, <<>>, Append(parts, part))
    ELSE SplitFrom(h, i + 1, Append(part, h[i]), parts)
Split(h) == SplitFrom(h, 1, <<>>, <<>>)

\* parts.slice(-3): one label too many
SliceLastThree(parts) == SubSeq(parts, Len(parts) - Min(Len(parts), 3) + 1, Len(parts))

\* parts.slice(-2)
SliceLastTwo(parts) == SubSeq(parts, Len(parts) - Min(Len(parts), 2) + 1, Len(parts))

\* parts.join('.')
RECURSIVE JoinFrom(_, _, _)
JoinFrom(parts, i, acc) ==
    IF i > Len(parts) THEN acc
    ELSE JoinFrom(parts, i + 1, IF i = 1 THEN parts[i] ELSE acc \o <<".">> \o parts[i])
Join(parts) == JoinFrom(parts, 1, <<>>)

\* getETLDPlusOne(url)
GetETLDPlusOne(text) ==
    LET parsed == NewURL(text, NoBase)
        parts == Split(parsed.hostname)
    IN  IF ~parsed.ok THEN Null
        ELSE IF Len(parts) >= 2 THEN Str(Join(SliceLastTwo(parts)))
        ELSE Str(parsed.hostname)

\* getETLDPlusOne not yet called
Unresolved == [kind |-> "unresolved", v |-> 0]

\* the each-callback without the test that actionETLD is truthy
ActionMismatchesUnguarded(action, pageUrl, apex) ==
    LET actionUrl == NewURL(action, pageUrl)
        actionETLD == GetETLDPlusOne(actionUrl.href)
    IN  /\ action.kind \notin {"undefined", "empty"}
        /\ actionUrl.ok
        /\ actionETLD # apex

\* the body of passwordInputs.each for one input: if (action) { try { ... if
\* (actionETLD && actionETLD !== pageETLD) ... } catch { } }
ActionMismatches(action, pageUrl, apex) ==
    LET actionUrl == NewURL(action, pageUrl)
        actionETLD == GetETLDPlusOne(actionUrl.href)
    IN  /\ action.kind \notin {"undefined", "empty"}
        /\ actionUrl.ok
        /\ TruthyStr(actionETLD)
        /\ actionETLD # apex

\* passwordInputs.each(...) with return false at the first mismatch: the
\* index of the input it stopped at, 0 when it ran to the end
RECURSIVE EachPasswordInput(_, _, _, _)
EachPasswordInput(actions, i, pageUrl, apex) ==
    IF i > Len(actions) THEN 0
    ELSE IF ActionMismatches(actions[i], pageUrl, apex) THEN i
    ELSE EachPasswordInput(actions, i + 1, pageUrl, apex)

\* hasPasswordForm, hasActionMismatch, suspiciousActions
FormFeatures(actions, pageUrl, apex) ==
    LET stop == EachPasswordInput(actions, 1, pageUrl, apex)
    IN  [hasPasswordForm |-> Len(actions) > 0,
         hasActionMismatch |-> Len(actions) > 0 /\ stop > 0,
         suspiciousActions |-> IF stop > 0
                               THEN <<NewURL(actions[stop], pageUrl).href>>
                               ELSE <<>>]

\* const parsedUrl = new URL(url); const pageETLD = this.getETLDPlusOne(url)
ParsePageUrl ==
    /\ pc = "parse"
    /\ IF NewURL(url, NoBase).ok
       THEN pc' = "forms" /\ pageETLD' = GetETLDPlusOne(url)
       ELSE pc' = "failing" /\ pageETLD' = pageETLD
    /\ UNCHANGED <<pageOpen, features, promise, socket, reply, signals, result,
                   url, dom, history, browser, scannerScan, requests>>

\* the form analysis of scan and of the server's replacement of it
AnalyseForms ==
    /\ pc = "forms"
    /\ features' = FormFeatures(dom, url, pageETLD)
    /\ pc' = "analysed"
    /\ UNCHANGED <<pageOpen, promise, socket, reply, signals, result, shell>>

\* a call of getETLDPlusOne on its own
ResolveApex ==
    /\ pc = "resolve"
    /\ pageETLD' = GetETLDPlusOne(url)
    /\ pc' = "resolved"
    /\ UNCHANGED <<pageOpen, features, promise, socket, reply, signals, result,
                   url, dom, history, browser, scannerScan, requests>>

\* URL texts for getETLDPlusOne
MaxHostLen == 4
HostChars == {"a", "b", "."}
Hosts == UNION {[1..n -> HostChars] : n \in 0..MaxHostLen}
ExampleUrl == AbsoluteUrl("https", <<"login", ".", "example", ".", "co", ".", "uk">>)
UrlTexts ==
    {AbsoluteUrl("https", h) : h \in Hosts}
    \cup {ExampleUrl, OpaqueUrl("mailto"), OpaqueUrl("javascript"),
          RelativeRef, MalformedText, EmptyText}

\* pages and the forms around their password inputs
MaxPasswordInputs == 2
PageHosts == {<<"a", ".", "b">>, <<"b">>, <<"a", ".", "a", ".", "b">>}
PageUrls == {AbsoluteUrl("https", h) : h \in PageHosts} \cup {OpaqueUrl("data"), MalformedText}
FormActions ==
    {NoAttr, EmptyText, RelativeRef, MalformedText, OpaqueUrl("javascript"),
     OpaqueUrl("mailto"), AbsoluteUrl("https", <<>>)}
    \cup {AbsoluteUrl("https", h) : h \in PageHosts \cup {<<"b", ".", "a">>, <<"b", ".", "a", ".", "b">>}}
Doms == UNION {[1..n -> FormActions] : n \in 0..MaxPasswordInputs}

\* ------------------------------------------------------------------------
\* The state outside a scan call
\* ------------------------------------------------------------------------
NoUrl == [kind |-> "none", scheme |-> "", host |-> <<>>]
\* the method VibeSniffScanner.prototype.scan; bound counts the wrappers
\* that bind(scanner) has put around a function
OriginalScan == [kind |-> "method", request |-> 0, bound |-> 0]

\* no call, no request, scanner.browser as given
Shell(b) ==
    /\ url = NoUrl
    /\ pageETLD = Unresolved
    /\ dom = <<>>
    /\ history = <<>>
    /\ browser = b
    /\ scannerScan = OriginalScan
    /\ requests = <<>>

\* ------------------------------------------------------------------------
\* Specifications
\* ------------------------------------------------------------------------
\* one scan, from the call to its return
Init ==
    /\ pc = "start"
    /\ pageOpen = FALSE
    /\ features = NoFeatures
    /\ promise = NoPromises
    /\ socket = "none"
    /\ reply = NoReplies
    /\ signals = NoSignals
    /\ result = NoResult
    /\ Shell("open")

Next ==
    \/ NewPage
    \/ Goto
    \/ Screenshot
    \/ ContentFails
    \/ Analyse(ScanFeatures)
    \/ WhoisSettles(ScanWhois)
    \/ WaybackSettles(ScanCdx)
    \/ TlsSecureConnect(ScanCerts)
    \/ TlsError
    \/ TlsTimeout
    \/ TlsClose
    \/ AwaitAll
    \/ ClosePage

Spec == Init /\ [][Next]_vars

\* every lookup settles in the end: the services answer or fail, and the
\* socket's timer runs out when nothing else happens
SpecFair ==
    /\ Spec
    /\ WF_vars(WhoisSettles(ScanWhois))
    /\ WF_vars(WaybackSettles(ScanCdx))
    /\ WF_vars(TlsTimeout)
    /\ WF_vars(AwaitAll)

\* the scoring engine alone, over every page analysis and every signal triple
ScoreInit ==
    /\ pc = "scoring"
    /\ pageOpen = TRUE
    /\ features \in FeatureSet
    /\ promise = NoPromises
    /\ socket = "none"
    /\ reply = NoReplies
    /\ signals \in SignalSet
    /\ result = NoResult
    /\ Shell("open")

Score ==
    /\ pc = "scoring"
    /\ result' = ScoreResult(features, signals)
    /\ pc' = "closing"
    /\ UNCHANGED <<pageOpen, features, promise, socket, reply, signals, shell>>

ScoreNext == Score

SpecScore == ScoreInit /\ [][ScoreNext]_vars

\* the scoring of one scan after another on the same scanner
MaxScans == 2
RescanSignals ==
    {sig \in SignalSet :
        /\ sig.domainAge \in {Null, Num(6)}
        /\ sig.tlsAge = Null
        /\ sig.waybackFirstSeen = Null}

RescanInit ==
    /\ pc = "scoring"
    /\ pageOpen = TRUE
    /\ features \in ScanFeatures
    /\ promise = NoPromises
    /\ socket = "none"
    /\ reply = NoReplies
    /\ signals \in RescanSignals
    /\ result = NoResult
    /\ url = NoUrl
    /\ pageETLD = Unresolved
    /\ dom = <<>>
    /\ history = <<>>
    /\ browser = "open"
    /\ scannerScan = OriginalScan
    /\ requests = <<>>

\* the next call of scan on the scanner, with a page and signals of its own
NextScan ==
    /\ pc = "closing"
    /\ Len(history) < MaxScans
    /\ history' = Append(history, [features |-> features, signals |-> signals,
                                   result |-> result])
    /\ features' \in ScanFeatures
    /\ signals' \in RescanSignals
    /\ result' = NoResult
    /\ pc' = "scoring"
    /\ UNCHANGED <<pageOpen, promise, socket, reply,
                   url, pageETLD, dom, browser, scannerScan, requests>>

RescanNext ==
    \/ Score
    \/ NextScan

SpecRescan == RescanInit /\ [][RescanNext]_vars

\* one lookup at a time, over every answer of its service
LookupInit ==
    /\ pc = "lookup"
    /\ pageOpen = FALSE
    /\ features = NoFeatures
    /\ promise = NoPromises
    /\ socket = "none"
    /\ reply = NoReplies
    /\ signals = NoSignals
    /\ result = NoResult
    /\ Shell("null")

LookupNext ==
    \/ CallDomainAge
    \/ WhoisSettles(AllWhois)
    \/ CallWayback
    \/ WaybackSettles(AllCdx)
    \/ CallTLS
    \/ TlsSecureConnect(AllCerts)
    \/ TlsError
    \/ TlsTimeout
    \/ TlsClose

SpecLookup == LookupInit /\ [][LookupNext]_vars

\* getETLDPlusOne alone, over every URL text
ApexInit ==
    /\ pc = "resolve"
    /\ pageOpen = FALSE
    /\ features = NoFeatures
    /\ promise = NoPromises
    /\ socket = "none"
    /\ reply = NoReplies
    /\ signals = NoSignals
    /\ result = NoResult
    /\ url \in UrlTexts
    /\ pageETLD = Unresolved
    /\ dom = <<>>
    /\ history = <<>>
    /\ browser = "open"
    /\ scannerScan = OriginalScan
    /\ requests = <<>>

ApexNext == ResolveApex

SpecApex == ApexInit /\ [][ApexNext]_vars

\* the form analysis of scan, over pages and the forms of their password inputs
FormsInit ==
    /\ pc = "parse"
    /\ pageOpen = TRUE
    /\ features = NoFeatures
    /\ promise = NoPromises
    /\ socket = "none"
    /\ reply = NoReplies
    /\ signals = NoSignals
    /\ result = NoResult
    /\ url \in PageUrls
    /\ pageETLD = Unresolved
    /\ dom \in Doms
    /\ history = <<>>
    /\ browser = "open"
    /\ scannerScan = OriginalScan
    /\ requests = <<>>

FormsNext ==
    \/ ParsePageUrl
    \/ AnalyseForms

SpecForms == FormsInit /\ [][FormsNext]_vars

\* ------------------------------------------------------------------------
\* main(): the command line
\* ------------------------------------------------------------------------
\* scanner.scan(url) up to its first await: if (!this.browser) await this.init()
Launch ==
    /\ pc = "main"
    /\ \E ok \in BOOLEAN :
         /\ browser' = IF ok THEN "open" ELSE "null"
         /\ pc' = IF ok THEN "start" ELSE "threw"
    /\ UNCHANGED <<pageOpen, features, promise, socket, reply, signals, result,
                   url, pageETLD, dom, history, scannerScan, requests>>

\* scanner.visualizer.generateReport(result) and the console.log lines:
\* writeFileSync can throw
MainReport ==
    /\ pc = "done"
    /\ \E ok \in BOOLEAN : pc' = IF ok THEN "finally" ELSE "threw"
    /\ UNCHANGED <<pageOpen, features, promise, socket, reply, signals, result, shell>>

\* catch (error) { console.error(...); process.exit(1) }: the process ends
\* inside the call, the finally block does not run
MainCatch ==
    /\ pc = "threw"
    /\ pc' = "exit1"
    /\ UNCHANGED <<pageOpen, features, promise, socket, reply, signals, result, shell>>

\* finally { await scanner.cleanup() }: if (this.browser) await
\* this.browser.close(); main returns and the process ends
MainFinally ==
    /\ pc = "finally"
    /\ browser' = IF browser = "open" THEN "closed" ELSE browser
    /\ pc' = "exit0"
    /\ UNCHANGED <<pageOpen, features, promise, socket, reply, signals, result,
                   url, pageETLD, dom, history, scannerScan, requests>>

MainInit ==
    /\ pc = "main"
    /\ pageOpen = FALSE
    /\ features = NoFeatures
    /\ promise = NoPromises
    /\ socket = "none"
    /\ reply = NoReplies
    /\ signals = NoSignals
    /\ result = NoResult
    /\ Shell("null")

MainNext ==
    \/ Launch
    \/ NewPage
    \/ Goto
    \/ Screenshot
    \/ ContentFails
    \/ Analyse(ScanFeatures)
    \/ WhoisSettles(ScanWhois)
    \/ WaybackSettles(ScanCdx)
    \/ TlsSecureConnect(ScanCerts)
    \/ TlsError
    \/ TlsTimeout
    \/ TlsClose
    \/ AwaitAll
    \/ ClosePage
    \/ MainReport
    \/ MainCatch
    \/ MainFinally

SpecMain == MainInit /\ [][MainNext]_vars

\* ------------------------------------------------------------------------
\* server.js: GET /scan
\* ------------------------------------------------------------------------
MaxRequests == 2
Requests == 1..MaxRequests

\* the async arrow function that the handler of request r assigns to scanner.scan
Closure(r) == [kind |-> "closure", request |-> r, bound |-> 0]
\* fn.bind(scanner): a new function object around fn
Bind(fn) == [fn EXCEPT !.bound = @ + 1]

NoResponse == [status |-> 0, reportUrl |-> FALSE]
Response(status, withReportUrl) == [status |-> status, reportUrl |-> withReportUrl]
NotArrived ==
    [pc |-> "none", originalScan |-> OriginalScan, runs |-> OriginalScan,
     pageOpen |-> FALSE, features |-> NoFeatures, result |-> NoResult,
     response |-> NoResponse]

\* score += w; reasons.push(text)
SrvFire(acc, w, text, value) ==
    [score |-> FAdd(acc.score, w),
     reasons |-> Append(acc.reasons, [text |-> text, value |-> value])]

\* the five rules of the replacement: lines 192-215
SrvApplyRules(f, domainAge, tlsAge) ==
    LET a0 == {[score |-> Zero, reasons |-> <<>>]}
        a1 == {IF ~IsNull(domainAge) /\ Less(domainAge, 7)
               THEN SrvFire(a, W035, "Domain age is ${domainAge} days (suspicious if < 7)",
                            domainAge)
               ELSE a : a \in a0}
        a2 == {IF ~IsNull(tlsAge) /\ Less(tlsAge, 7)
               THEN SrvFire(a, W020,
                            "TLS certificate age is ${tlsAge} days (suspicious if < 7)", tlsAge)
               ELSE a : a \in a1}
        a3 == {IF f.hasPasswordForm
               THEN SrvFire(a, W020, "Contains password form", Num(1))
               ELSE a : a \in a2}
        a4 == {IF f.hasActionMismatch
               THEN SrvFire(a, W025, "Password form action points to different domain", Num(1))
               ELSE a : a \in a3}
    IN  CHOOSE r \in {IF f.externalHostsCount > 8
                      THEN SrvFire(a, W010,
                             "High number of external hosts: ${externalHostsCount} (suspicious if > 8)",
                             Num(f.externalHostsCount))
                      ELSE a : a \in a4} : TRUE

\* the object the replacement returns: lines 217-233
SrvScoreResult(f, sig, screenshotId) ==
    LET accs == {SrvApplyRules(f, sig.domainAge, sig.tlsAge)}
    IN  CHOOSE r \in {[url |-> "url",
                       score |-> ReportedScore(CapScore(a.score)),
                       reasons |-> WithFallback(a.reasons),
                       domainAgeDays |-> sig.domainAge,
                       tlsAgeDays |-> sig.tlsAge,
                       waybackFirstSeenDays |-> sig.waybackFirstSeen,
                       externalHosts |-> f.externalHostsCount,
                       externalHostList |-> [size |-> f.externalHostsCount],
                       screenshot |-> screenshotId] : a \in accs} : TRUE

\* generateHTML reads scanResult.technical.domain, .content.title,
\* .forms.totalForms, .links.totalLinks, .iframes.totalIframes,
\* .riskFactors.map and .reasons.length: a TypeError when the object lacks
\* one of these properties
GenerateHTMLThrows(scanResult) ==
    ~({"technical", "content", "forms", "links", "iframes", "riskFactors", "reasons"}
        \subseteq DOMAIN scanResult)

\* what the requests of the model find on their pages and get as signals
SrvFeatures ==
    {f \in ScanFeatures : f.foundSuspiciousKeywords = 3 /\ f.hasPasswordForm = f.hasActionMismatch}

\* requests[r] with some fields replaced
Step(r, changes) ==
    [requests EXCEPT ![r] = [k \in DOMAIN @ |->
                               IF k \in DOMAIN changes THEN changes[k] ELSE @[k]]]

\* the handler up to its first await: 400 for a missing or an invalid url,
\* else on to await import('node:fs')
SrvReceive(r) ==
    /\ requests[r].pc = "none"
    /\ \A q \in Requests : q < r => requests[q].pc # "none"
    /\ \E query \in {"missing", "invalid", "valid"} :
         requests' = IF query = "valid"
                     THEN Step(r, [pc |-> "mkdir"])
                     ELSE Step(r, [pc |-> "answered", response |-> Response(400, FALSE)])
    /\ UNCHANGED <<pc, pageOpen, features, promise, socket, reply, signals, result,
                   url, pageETLD, dom, history, browser, scannerScan>>

\* scanner.scan(url) called before the closure is assigned: the call runs
\* whatever function the property holds at that moment
SrvPatchAfterCall(r) ==
    /\ requests[r].pc = "mkdir"
    /\ scannerScan' = Closure(r)
    /\ requests' = Step(r, [pc |-> "newPage", originalScan |-> Bind(scannerScan),
                            runs |-> scannerScan])
    /\ UNCHANGED <<pc, pageOpen, features, promise, socket, reply, signals, result,
                   url, pageETLD, dom, history, browser>>

\* const originalScan = scanner.scan.bind(scanner); scanner.scan = async (url)
\* => {...}; scanner.scan(url) runs up to await scanner.browser.newPage()
SrvPatch(r) ==
    /\ requests[r].pc = "mkdir"
    /\ scannerScan' = Closure(r)
    /\ requests' = Step(r, [pc |-> "newPage", originalScan |-> Bind(scannerScan),
                            runs |-> Closure(r)])
    /\ UNCHANGED <<pc, pageOpen, features, promise, socket, reply, signals, result,
                   url, pageETLD, dom, history, browser>>

\* await scanner.browser.newPage(): outside the try of the replacement
SrvNewPage(r) ==
    /\ requests[r].pc = "newPage"
    /\ \E ok \in BOOLEAN :
         requests' = IF ok THEN Step(r, [pc |-> "goto", pageOpen |-> TRUE])
                     ELSE Step(r, [pc |-> "rejected"])
    /\ UNCHANGED <<pc, pageOpen, features, promise, socket, reply, signals, result,
                   url, pageETLD, dom, history, browser, scannerScan>>

\* an await of the replacement inside its try: page.goto, page.screenshot,
\* page.content, import('cheerio')
SrvAwait(r, at, then) ==
    /\ requests[r].pc = at
    /\ \E ok \in BOOLEAN :
         requests' = Step(r, [pc |-> IF ok THEN then ELSE "failing"])
    /\ UNCHANGED <<pc, pageOpen, features, promise, socket, reply, signals, result,
                   url, pageETLD, dom, history, browser, scannerScan>>

\* lines 105-186: the form analysis, the external hosts, the three lookups started
SrvAnalyse(r) ==
    /\ requests[r].pc = "analyse"
    /\ \E f \in SrvFeatures :
         requests' = Step(r, [pc |-> "lookups", features |-> f])
    /\ UNCHANGED <<pc, pageOpen, features, promise, socket, reply, signals, result,
                   url, pageETLD, dom, history, browser, scannerScan>>

\* Promise.all fulfils (the lookups never reject); lines 188-233
SrvScore(r) ==
    /\ requests[r].pc = "lookups"
    /\ \E sig \in RescanSignals :
         requests' = Step(r, [pc |-> "closing",
                              result |-> SrvScoreResult(requests[r].features, sig,
                                                        requests[r].runs.request)])
    /\ UNCHANGED <<pc, pageOpen, features, promise, socket, reply, signals, result,
                   url, pageETLD, dom, history, browser, scannerScan>>

\* page.close() as the last statement of the try block and no finally
SrvClosePageInTry(r) ==
    /\ requests[r].pc \in {"closing", "failing"}
    /\ requests' = IF requests[r].pc = "closing"
                   THEN Step(r, [pc |-> "returned", pageOpen |-> FALSE])
                   ELSE Step(r, [pc |-> "rejected"])
    /\ UNCHANGED <<pc, pageOpen, features, promise, socket, reply, signals, result,
                   url, pageETLD, dom, history, browser, scannerScan>>

\* finally { await page.close() }, then the promise of the call settles
SrvClosePage(r) ==
    /\ requests[r].pc \in {"closing", "failing"}
    /\ requests' = Step(r, [pc |-> IF requests[r].pc = "closing" THEN "returned"
                                   ELSE "rejected",
                            pageOpen |-> FALSE])
    /\ UNCHANGED <<pc, pageOpen, features, promise, socket, reply, signals, result,
                   url, pageETLD, dom, history, browser, scannerScan>>

\* lines 240-249 after the await: scanner.scan = originalScan;
\* generateReport(result); result.reportUrl = ...; res.json(result); an
\* exception of generateReport lands in the catch of the handler
SrvResume(r) ==
    /\ requests[r].pc = "returned"
    /\ scannerScan' = requests[r].originalScan
    /\ \E written \in BOOLEAN :
         requests' = Step(r, [pc |-> "answered",
                              response |-> IF GenerateHTMLThrows(requests[r].result)
                                              \/ ~written
                                           THEN Response(500, FALSE)
                                           ELSE Response(200, TRUE)])
    /\ UNCHANGED <<pc, pageOpen, features, promise, socket, reply, signals, result,
                   url, pageETLD, dom, history, browser>>

\* catch (error) { res.status(500).json(...) } for a scan that rejected
SrvCatch(r) ==
    /\ requests[r].pc = "rejected"
    /\ requests' = Step(r, [pc |-> "answered", response |-> Response(500, FALSE)])
    /\ UNCHANGED <<pc, pageOpen, features, promise, socket, reply, signals, result,
                   url, pageETLD, dom, history, browser, scannerScan>>

\* the server after await scanner.init() and app.listen
SrvInit ==
    /\ pc = "server"
    /\ pageOpen = FALSE
    /\ features = NoFeatures
    /\ promise = NoPromises
    /\ socket = "none"
    /\ reply = NoReplies
    /\ signals = NoSignals
    /\ result = NoResult
    /\ url = NoUrl
    /\ pageETLD = Unresolved
    /\ dom = <<>>
    /\ history = <<>>
    /\ browser = "open"
    /\ scannerScan = OriginalScan
    /\ requests = [r \in Requests |-> NotArrived]

SrvNext ==
    \E r \in Requests :
        \/ SrvReceive(r)
        \/ SrvPatch(r)
        \/ SrvNewPage(r)
        \/ SrvAwait(r, "goto", "screenshot")
        \/ SrvAwait(r, "screenshot", "content")
        \/ SrvAwait(r, "content", "cheerio")
        \/ SrvAwait(r, "cheerio", "analyse")
        \/ SrvAnalyse(r)
        \/ SrvScore(r)
        \/ SrvClosePage(r)
        \/ SrvResume(r)
        \/ SrvCatch(r)

SpecServer == SrvInit /\ [][SrvNext]_vars

\* ------------------------------------------------------------------------
\* The two scorings on the same page analysis and the same signals
\* ------------------------------------------------------------------------
\* lines 188-233 of server.js on the signals the lookups of the scan delivered
SrvScoreSignals(r) ==
    /\ requests[r].pc = "lookups"
    /\ requests' = Step(r, [pc |-> "closing",
                            result |-> SrvScoreResult(requests[r].features, signals,
                                                      requests[r].runs.request)])
    /\ UNCHANGED <<pc, pageOpen, features, promise, socket, reply, signals, result,
                   url, pageETLD, dom, history, browser, scannerScan>>

CompareInit ==
    /\ pc = "scoring"
    /\ pageOpen = TRUE
    /\ features \in FeatureSet
    /\ promise = NoPromises
    /\ socket = "none"
    /\ reply = NoReplies
    /\ signals \in SignalSet
    /\ result = NoResult
    /\ url = NoUrl
    /\ pageETLD = Unresolved
    /\ dom = <<>>
    /\ history = <<>>
    /\ browser = "open"
    /\ scannerScan = Closure(1)
    /\ requests = [r \in Requests |->
                     IF r = 1
                     THEN [NotArrived EXCEPT !.pc = "lookups", !.features = features,
                                             !.runs = Closure(1), !.pageOpen = TRUE,
                                             !.originalScan = Bind(OriginalScan)]
                     ELSE NotArrived]

CompareNext ==
    \/ Score
    \/ SrvScoreSignals(1)

SpecCompare == CompareInit /\ [][CompareNext]_vars

\* ------------------------------------------------------------------------
\* The pages of a scan of the command line followed by requests to the server
\* ------------------------------------------------------------------------
PagesInit ==
    /\ pc = "start"
    /\ pageOpen = FALSE
    /\ features = NoFeatures
    /\ promise = NoPromises
    /\ socket = "none"
    /\ reply = NoReplies
    /\ signals = NoSignals
    /\ result = NoResult
    /\ url = NoUrl
    /\ pageETLD = Unresolved
    /\ dom = <<>>
    /\ history = <<>>
    /\ browser = "open"
    /\ scannerScan = OriginalScan
    /\ requests = [r \in Requests |-> NotArrived]

PagesNext ==
    \/ NewPage
    \/ Goto
    \/ Screenshot
    \/ ContentFails
    \/ Analyse(SrvFeatures)
    \/ WhoisSettles({WhoisError})
    \/ WaybackSettles({CdxError})
    \/ TlsTimeout
    \/ AwaitAll
    \/ ClosePage
    \/ (pc \in {"done", "threw"} /\ SrvNext)

SpecPages == PagesInit /\ [][PagesNext]_vars

\* ------------------------------------------------------------------------
\* Properties of the scoring engine (SpecScore)
\* ------------------------------------------------------------------------
Scored == result # NoResult

\* the rule conditions and weights as the rule table states them, in hundredths
DomainWeight(sig) ==
    IF sig.domainAge.kind = "number" /\ sig.domainAge.v < 7 THEN 35
    ELSE IF sig.domainAge.kind = "number" /\ sig.domainAge.v < 30 THEN 15
    ELSE 0
TlsWeight(sig) == IF sig.tlsAge.kind = "number" /\ sig.tlsAge.v < 7 THEN 20 ELSE 0
FeatureWeight(f) ==
      (IF f.hasPasswordForm THEN 20 ELSE 0)
    + (IF f.hasActionMismatch THEN 25 ELSE 0)
    + (IF f.suspiciousFormPatterns # <<>> THEN 15 ELSE 0)
    + (IF f.externalHostsCount > 8 THEN 10 ELSE 0)
    + (IF f.foundSuspiciousKeywords > 3 THEN 15 ELSE 0)
    + (IF f.suspiciousLinkPatterns > 0 THEN 10 ELSE 0)
    + (IF f.hasPopups \/ f.hasRedirects THEN 10 ELSE 0)
    + (IF f.suspiciousIframes > 0 THEN 10 ELSE 0)
TableWeight(f, sig) == DomainWeight(sig) + TlsWeight(sig) + FeatureWeight(f)

\* the weight of a risk factor in hundredths
Hundredths(w) == MathRound(ExactMul(w, 100))
RECURSIVE FactorWeights(_)
FactorWeights(rf) ==
    IF rf = <<>> THEN 0 ELSE Hundredths(Head(rf).weight) + FactorWeights(Tail(rf))

\* C1: for every page analysis and every signal triple the score that scan
\* returns lies in [0, 1] (0..100 hundredths).
C1_ScoreBounded == Scored => (result.score >= 0 /\ result.score <= 100)

\* C1 witness: a scan whose fired weights add up to more than 1 and whose
\* score is 1.00
C1_Witness == Scored /\ TableWeight(features, signals) > 100 /\ result.score = 100

\* C2: the returned score is min(1.0, sum of the weights of the rules whose
\* conditions hold), which is also min(1.0, sum of riskFactors[i].weight).
C2_ScoreIsCappedSum ==
    Scored =>
        /\ result.score = Min(100, TableWeight(features, signals))
        /\ result.score = Min(100, FactorWeights(result.riskFactors))

\* C2 witness: domainAge < 7, tlsAge < 7, password form, action mismatch and
\* more than 3 keywords, nothing else: 1.15 clamped to 1.00
C2_Witness ==
    /\ Scored
    /\ TableWeight(features, signals) = 115
    /\ DomainWeight(signals) = 35 /\ TlsWeight(signals) = 20
    /\ features.hasActionMismatch /\ features.foundSuspiciousKeywords > 3
    /\ Len(result.riskFactors) = 5
    /\ result.score = 100

\* C3: reasons is never empty; when a rule fired riskFactors and reasons have
\* the same length; when none fired reasons is the one fallback entry and
\* riskFactors is empty.
C3_ReasonsAndFactors ==
    Scored =>
        /\ Len(result.reasons) >= 1
        /\ TableWeight(features, signals) > 0 =>
             /\ Len(result.riskFactors) = Len(result.reasons)
             /\ \A i \in 1..Len(result.reasons) : result.reasons[i] # FallbackReason
        /\ TableWeight(features, signals) = 0 =>
             /\ result.reasons = <<FallbackReason>>
             /\ result.riskFactors = <<>>

\* C3 witness: a scan in which no rule fired
C3_Witness ==
    Scored /\ TableWeight(features, signals) = 0 /\ result.reasons = <<FallbackReason>>

\* C4: the risk level is a function of the returned score: HIGH iff
\* score > 0.7, MEDIUM iff 0.4 < score <= 0.7, LOW iff score <= 0.4.
C4_LevelByScore ==
    Scored =>
        /\ result.riskLevel = "HIGH" <=> result.score > 70
        /\ result.riskLevel = "MEDIUM" <=> (result.score > 40 /\ result.score <= 70)
        /\ result.riskLevel = "LOW" <=> result.score <= 40

\* the thresholds applied to the returned two-decimal score
LevelOfReported(n) == IF n > 70 THEN "HIGH" ELSE IF n > 40 THEN "MEDIUM" ELSE "LOW"

\* C5: the reported riskLevel is the level of the reported score.
C5_LevelMatchesReportedScore == Scored => result.riskLevel = LevelOfReported(result.score)

\* ------------------------------------------------------------------------
\* Properties of the signal collection (Spec, SpecFair, SpecLookup)
\* ------------------------------------------------------------------------
WhoisFailed == reply.whois.kind = "error"
TlsFailed == reply.tls.kind \in {"connectThrew", "error", "timeout"}
WaybackFailed == reply.wayback.kind = "error"

WhoisHasDate ==
    /\ reply.whois.kind = "record"
    /\ \E x \in {reply.whois.creationDate, reply.whois.registered, reply.whois.created} :
         x # Absent
TlsHasDate ==
    /\ reply.tls.kind = "secureConnect"
    /\ reply.tls.cert.present /\ Truthy(reply.tls.cert.valid_from)
WaybackHasDate == reply.wayback.kind = "data" /\ reply.wayback.rows > 1

SignalFactors == {"New Domain", "Recent Domain", "New Certificate"}

\* C6: a failing lookup (WHOIS, TLS, Wayback) does not abort the scan: its
\* field is null, a lookup that was answered with a date keeps its value, and
\* the scoring runs; when all three fail the signals are all null, no
\* domain-age or TLS rule fires and the score is the capped sum of the
\* feature rules.
C6_FailedLookupsYieldNull ==
    /\ pc \in {"failing", "threw"} => features = NoFeatures
    /\ Scored =>
         /\ WhoisFailed => result.domainAgeDays = Null
         /\ TlsFailed => result.tlsAgeDays = Null
         /\ WaybackFailed => result.waybackFirstSeenDays = Null
         /\ WhoisHasDate => result.domainAgeDays # Null
         /\ TlsHasDate => result.tlsAgeDays # Null
         /\ WaybackHasDate => result.waybackFirstSeenDays # Null
         /\ (WhoisFailed /\ TlsFailed /\ WaybackFailed) =>
              /\ signals = [l \in Lookups |-> Null]
              /\ \A i \in 1..Len(result.riskFactors) :
                   result.riskFactors[i].factor \notin SignalFactors
              /\ result.score = Min(100, FeatureWeight(features))

\* C6 witness: a scan of a page with a password form that returned its
\* result although all three lookups failed
C6_Witness ==
    /\ pc = "done" /\ Scored
    /\ WhoisFailed /\ TlsFailed /\ WaybackFailed
    /\ features.hasPasswordForm
    /\ result.score = FeatureWeight(features)

AllStarted == \A l \in Lookups : promise[l].state # "unstarted"
NoneStarted == \A l \in Lookups : promise[l].state = "unstarted"

\* C7: the three lookups are started together, none waiting for another;
\* the scoring starts only after all three have settled; and, every lookup
\* settling in the end, a scan that started its lookups reaches the scoring.
C7_ConcurrentLookups ==
    /\ [](NoneStarted \/ AllStarted)
    /\ [](Scored => \A l \in Lookups : promise[l].state = "fulfilled")
    /\ (pc = "lookups" ~> Scored)

\* C7 witness: the scan has been scored after the WHOIS lookup failed, the
\* socket timed out and the archive answered
C7_Witness ==
    /\ Scored
    /\ WhoisFailed /\ reply.tls.kind = "timeout" /\ WaybackHasDate
    /\ \A l \in Lookups : promise[l].state = "fulfilled"

TornDown == socket \in {"none", "ended", "closed", "destroyed"}

\* C8: when getTLSAge's result is there for the caller the TLS connection has
\* been ended or destroyed (or was never made, connect having thrown), on
\* every path: certificate, no valid_from, error, timeout, exception.
C8_SocketTornDown == promise.tlsAge.state = "fulfilled" => TornDown

\* C8 witness: the lookup was settled by the timeout, the socket destroyed
C8_Witness ==
    /\ promise.tlsAge.state = "fulfilled"
    /\ reply.tls.kind = "timeout"
    /\ socket = "destroyed"

\* the first field present, in the order creationDate, registered, created
FirstPresent(r) ==
    IF r.creationDate # Absent THEN r.creationDate
    ELSE IF r.registered # Absent THEN r.registered
    ELSE r.created

\* the date each lookup measures from, when its reply carries one Date parses
WhoisDate == FirstPresent(reply.whois)
HasRef(l) ==
    CASE l = "domainAge" -> WhoisHasDate /\ WhoisDate.kind = "date"
      [] l = "tlsAge" -> TlsHasDate /\ reply.tls.cert.valid_from.kind = "date"
      [] l = "waybackFirstSeen" -> WaybackHasDate /\ reply.wayback.timestamp.kind = "date"
RefTime(l) ==
    CASE l = "domainAge" -> WhoisDate.t
      [] l = "tlsAge" -> reply.tls.cert.valid_from.t
      [] l = "waybackFirstSeen" ->
            reply.wayback.timestamp.t - (reply.wayback.timestamp.t % MsPerDay)

\* C9 as claimed: every non-null signal is >= 0 and a reference date after
\* the current time gives 0.
C9_SkewClampedToZero ==
    \A l \in Lookups :
        (promise[l].state = "fulfilled" /\ promise[l].value # Null) =>
            /\ promise[l].value.kind = "number" /\ promise[l].value.v >= 0
            /\ (HasRef(l) /\ RefTime(l) > Now) => promise[l].value.v = 0

\* C9 amended: every signal that is a number is >= 0; nothing is clamped: a
\* reference date after the current time gives the number of days it lies
\* ahead, rounded up, which is at least 1; the only other non-null value is
\* the NaN of getDomainAge for a date text that Date cannot parse.
C9_AbsoluteAge ==
    \A l \in Lookups :
        (promise[l].state = "fulfilled" /\ promise[l].value # Null) =>
            /\ promise[l].value.kind = "number" => promise[l].value.v >= 0
            /\ (HasRef(l) /\ RefTime(l) > Now) =>
                 /\ promise[l].value.kind = "number"
                 /\ promise[l].value.v >= 1
                 /\ promise[l].value.v * MsPerDay >= RefTime(l) - Now
                 /\ (promise[l].value.v - 1) * MsPerDay < RefTime(l) - Now
            /\ promise[l].value.kind = "NaN" =>
                 (l = "domainAge" /\ WhoisDate.kind = "garbage")

\* C9 witness: the certificate is valid from a time two days ahead and the
\* lookup returned 2
C9_Witness ==
    /\ promise.tlsAge.state = "fulfilled"
    /\ HasRef("tlsAge")
    /\ RefTime("tlsAge") = Now + 2 * MsPerDay
    /\ promise.tlsAge.value = Num(2)

\* the parsable date fields of the WHOIS record
DateFields(r) ==
    {x \in {r.creationDate, r.registered, r.created} : x.kind = "date"}
Oldest(r) == CHOOSE x \in DateFields(r) : \A y \in DateFields(r) : x.t <= y.t
\* v is the number of days between t and Now, rounded up
IsDaysSince(v, t) ==
    LET dist == IF t > Now THEN t - Now ELSE Now - t
    IN  /\ v.kind = "number"
        /\ v.v * MsPerDay >= dist
        /\ (v.v - 1) * MsPerDay < dist

\* C10 as claimed: with several date fields in the record the age is that of
\* the oldest date.
C10_EarliestDate ==
    (promise.domainAge.state = "fulfilled" /\ reply.whois.kind = "record"
        /\ Cardinality(DateFields(reply.whois)) > 1) =>
        IsDaysSince(promise.domainAge.value, Oldest(reply.whois).t)

\* C10 amended: the age is that of the first field present in the order
\* creationDate, registered, created, whatever the dates of the others; the
\* result is null when none is present and NaN when that field does not parse.
C10_FirstPresentDate ==
    (promise.domainAge.state = "fulfilled" /\ reply.whois.kind = "record") =>
        LET d == FirstPresent(reply.whois)
            v == promise.domainAge.value
        IN  /\ d.kind = "absent" => v = Null
            /\ d.kind = "garbage" => v = NaN
            /\ d.kind = "date" => IsDaysSince(v, d.t)

\* C10 witness: creationDate is 3 days old, registered 8 days, and the age is 3
C10_Witness ==
    /\ promise.domainAge.state = "fulfilled"
    /\ reply.whois.kind = "record"
    /\ reply.whois.creationDate = DaysAgo(3)
    /\ reply.whois.registered = DaysAgo(8)
    /\ promise.domainAge.value = Num(3)

\* ------------------------------------------------------------------------
\* Properties of getETLDPlusOne (SpecApex) and of the form analysis (SpecForms)
\* ------------------------------------------------------------------------
\* the positions of the dots of a hostname; its labels are the runs between them
DotsOf(h) == {i \in 1..Len(h) : h[i] = "."}
LabelCount(h) == Cardinality(DotsOf(h)) + 1
\* the text after the last dot but one: the last two labels with their dot;
\* the whole hostname when it has no such dot
LastTwoLabels(h) ==
    LET before == {i \in DotsOf(h) : \E j \in DotsOf(h) : j > i}
    IN  IF before = {} THEN h
        ELSE SubSeq(h, (CHOOSE i \in before : \A k \in before : k <= i) + 1, Len(h))

\* C11: getETLDPlusOne returns null for a URL that does not parse; otherwise
\* the last two labels of the hostname joined by '.', or the whole hostname
\* when it has one label; https://login.example.co.uk/path gives 'co.uk'; two
\* URLs whose hostnames share their last two labels get the same identity.
C11_ApexOfUrl ==
    pc = "resolved" =>
        LET p == NewURL(url, NoBase)
        IN  /\ ~p.ok => pageETLD = Null
            /\ p.ok => pageETLD = Str(LastTwoLabels(p.hostname))
            /\ url = ExampleUrl => pageETLD = Str(<<"co", ".", "uk">>)
            /\ \A u \in UrlTexts :
                 LET q == NewURL(u, NoBase)
                 IN  (/\ p.ok /\ q.ok
                      /\ LabelCount(p.hostname) >= 2
                      /\ LabelCount(q.hostname) >= 2
                      /\ LastTwoLabels(p.hostname) = LastTwoLabels(q.hostname))
                     => GetETLDPlusOne(u) = pageETLD

C11_Witness ==
    /\ pc = "resolved"
    /\ url = ExampleUrl
    /\ pageETLD = Str(<<"co", ".", "uk">>)

\* the host a form action submits to on a page: its own, the page's for a
\* reference or no action, none for a host-less or unparsable action
ActionHost(a, page) ==
    CASE a.kind = "absolute" -> a.host
      [] a.kind \in {"relative", "empty", "undefined"} /\ page.kind = "absolute" -> page.host
      [] OTHER -> <<>>
HasForeignApex(a, page) ==
    /\ ActionHost(a, page) # <<>>
    /\ LastTwoLabels(ActionHost(a, page)) # <<>>
    /\ Str(LastTwoLabels(ActionHost(a, page))) # pageETLD
Hostless(a) == ActionHost(a, OpaqueUrl("data")) = <<>>

\* C12: the action mismatch flag is set only when the form of some password
\* input has an action whose apex is non-null, non-empty and differs from
\* the page's apex; the page's apex is never null when the actions are
\* compared; unparsable and host-less actions never set the flag.
C12_MissingApexIsNoMismatch ==
    /\ pc \in {"forms", "analysed"} => pageETLD.kind = "string"
    /\ pc = "analysed" =>
         /\ features.hasActionMismatch =>
              \E i \in 1..Len(dom) : HasForeignApex(dom[i], url)
         /\ (\A i \in 1..Len(dom) : Hostless(dom[i])) => ~features.hasActionMismatch

C12_Witness ==
    /\ pc = "analysed"
    /\ url.kind = "absolute"
    /\ Len(dom) = 2
    /\ dom[1] = OpaqueUrl("javascript")
    /\ dom[2] = MalformedText
    /\ ~features.hasActionMismatch

\* ------------------------------------------------------------------------
\* Properties of the rules (SpecScore)
\* ------------------------------------------------------------------------
\* the risk factors of the result that carry a name
FactorsNamed(name) ==
    {i \in 1..Len(result.riskFactors) : result.riskFactors[i].factor = name}

\* C13: the two domain age rules exclude each other, with strict thresholds:
\* d < 7 fires only 'New Domain' (0.35), 7 <= d < 30 only 'Recent Domain'
\* (0.15), d >= 30 and null neither; no result has both factors.
C13_DomainRulesExclusive ==
    Scored =>
        LET d == signals.domainAge
            new == FactorsNamed("New Domain")
            recent == FactorsNamed("Recent Domain")
        IN  /\ (d.kind = "number" /\ d.v < 7) =>
                 /\ Cardinality(new) = 1 /\ recent = {}
                 /\ \A i \in new : result.riskFactors[i].weight = W035
            /\ (d.kind = "number" /\ 7 <= d.v /\ d.v < 30) =>
                 /\ Cardinality(recent) = 1 /\ new = {}
                 /\ \A i \in recent : result.riskFactors[i].weight = W015
            /\ (d.kind = "number" /\ d.v >= 30) => new = {} /\ recent = {}
            /\ d = Null => new = {} /\ recent = {}
            /\ new = {} \/ recent = {}

C13_Witness ==
    /\ Scored
    /\ signals.domainAge = Num(7)
    /\ FactorsNamed("Recent Domain") # {}
    /\ FactorsNamed("New Domain") = {}

\* the sum of the fired weights before the cap, as scan holds it
Unclamped == ApplyRules(features, signals.domainAge, signals.tlsAge).score

\* C14 as stated: the weights of the rules that can fire together sum to at
\* most 1.0, so the unclamped sum never exceeds 1.0 and the clamp never
\* changes the score.
C14_ClampNeverChanges ==
    Scored =>
        /\ FactorWeights(result.riskFactors) <= 100
        /\ ~FGreater(Unclamped, One)
        /\ CapScore(Unclamped) = Unclamped

\* C14: the weights of the rules that can fire together sum to 1.70; the
\* unclamped sum exceeds 1.0 exactly when the fired weights add up to more
\* than 1.0, and then the clamp lowers the score to 1.0.
C14_ClampBinds ==
    Scored =>
        /\ FactorWeights(result.riskFactors) <= 170
        /\ FactorWeights(result.riskFactors) > 100 <=> FGreater(Unclamped, One)
        /\ FGreater(Unclamped, One) =>
             /\ CapScore(Unclamped) = One
             /\ result.score = 100

C14_Witness ==
    /\ Scored
    /\ FactorWeights(result.riskFactors) = 170
    /\ Len(result.riskFactors) = 10
    /\ FGreater(Unclamped, One)
    /\ result.score = 100

\* the inputs that make one more rule condition true than <<f, sig>> does and
\* keep the others: a domain age one band lower counts as one more
Raised(f, sig) ==
       {<<f, [sig EXCEPT !.domainAge = d]>> :
            d \in {x \in {Num(6), Num(29)} :
                     DomainWeight([sig EXCEPT !.domainAge = x]) > DomainWeight(sig)}}
  \cup {<<f, [sig EXCEPT !.tlsAge = Num(6)]>> : x \in {0} \ {TlsWeight(sig)}}
  \cup {<<[f EXCEPT !.hasPasswordForm = TRUE], sig>> : x \in {f.hasPasswordForm} \ {TRUE}}
  \cup {<<[f EXCEPT !.hasActionMismatch = TRUE], sig>> : x \in {f.hasActionMismatch} \ {TRUE}}
  \cup {<<[f EXCEPT !.suspiciousFormPatterns = <<ActionPattern>>], sig>> :
            x \in {f.suspiciousFormPatterns} \cap {<<>>}}
  \cup {<<[f EXCEPT !.externalHostsCount = 9], sig>> : x \in {f.externalHostsCount} \cap 0..8}
  \cup {<<[f EXCEPT !.foundSuspiciousKeywords = 4], sig>> :
            x \in {f.foundSuspiciousKeywords} \cap 0..3}
  \cup {<<[f EXCEPT !.suspiciousLinkPatterns = 1], sig>> :
            x \in {f.suspiciousLinkPatterns} \cap {0}}
  \cup {<<[f EXCEPT !.hasPopups = TRUE], sig>> : x \in {f.hasPopups \/ f.hasRedirects} \ {TRUE}}
  \cup {<<[f EXCEPT !.suspiciousIframes = 1], sig>> : x \in {f.suspiciousIframes} \cap {0}}

LevelRank(level) == CASE level = "LOW" -> 0 [] level = "MEDIUM" -> 1 [] level = "HIGH" -> 2

\* C15: making one more rule condition true, the others held fixed (a domain
\* age moved from the 7..29 band below 7 included), never decreases the score
\* and never lowers the risk level.
C15_Monotone ==
    Scored =>
        \A r \in {ScoreResult(n[1], n[2]) : n \in Raised(features, signals)} :
            /\ r.score >= result.score
            /\ LevelRank(r.riskLevel) >= LevelRank(result.riskLevel)

C15_Witness ==
    /\ Scored
    /\ DomainWeight(signals) = 15
    /\ result.riskLevel = "MEDIUM"
    /\ \E n \in Raised(features, signals) :
         /\ n[2].domainAge = Num(6)
         /\ ScoreResult(n[1], n[2]).riskLevel = "HIGH"
         /\ ScoreResult(n[1], n[2]).score > result.score

RuleOfFactor(name) ==
    CASE name \in {"New Domain", "Recent Domain"} -> 1
      [] name = "New Certificate" -> 2
      [] name = "Password Form" -> 3
      [] name = "Action Mismatch" -> 4
      [] name = "Suspicious Forms" -> 5
      [] name = "High External Hosts" -> 6
      [] name = "Suspicious Keywords" -> 7
      [] name = "Suspicious Links" -> 8
      [] name = "Popups/Redirects" -> 9
      [] name = "Suspicious Iframes" -> 10
      [] OTHER -> 0
RuleOfReason(text) ==
    CASE text \in {"Domain age is ${domainAge} days (suspicious if < 7)",
                   "Domain age is ${domainAge} days (somewhat new)"} -> 1
      [] text = "TLS certificate age is ${tlsAge} days (suspicious if < 7)" -> 2
      [] text = "Contains password form" -> 3
      [] text = "Password form action points to different domain" -> 4
      [] text = "Suspicious form patterns: ${suspiciousFormPatterns.join(', ')}" -> 5
      [] text = "High number of external hosts: ${externalHostsCount} (suspicious if > 8)" -> 6
      [] text = "High number of suspicious keywords: ${foundSuspiciousKeywords.length}" -> 7
      [] text = "Suspicious link patterns detected: ${suspiciousLinkPatterns.length}" -> 8
      [] text = "Contains popup or redirect scripts" -> 9
      [] text = "Suspicious iframes detected: ${suspiciousIframes.length}" -> 10
      [] OTHER -> 0

\* C19: riskFactors and reasons are in rule evaluation order and correspond
\* by index: the fired rules in riskFactors follow the fixed order (domain
\* age, TLS age, password form, action mismatch, form patterns, external
\* hosts, keywords, link patterns, popup/redirect, iframes), reasons[i] and
\* riskFactors[i] come from the same rule, and every weight is in (0, 1].
C19_RuleOrder ==
    Scored =>
        \A i \in 1..Len(result.riskFactors) :
            /\ RuleOfFactor(result.riskFactors[i].factor) \in 1..10
            /\ i > 1 => RuleOfFactor(result.riskFactors[i - 1].factor)
                          < RuleOfFactor(result.riskFactors[i].factor)
            /\ i <= Len(result.reasons)
            /\ RuleOfReason(result.reasons[i].text)
                 = RuleOfFactor(result.riskFactors[i].factor)
            /\ FGreater(result.riskFactors[i].weight, Zero)
            /\ ~FGreater(result.riskFactors[i].weight, One)

C19_Witness ==
    /\ Scored
    /\ Len(result.riskFactors) = 3
    /\ result.riskFactors[1].factor = "Recent Domain"
    /\ result.riskFactors[2].factor = "Suspicious Keywords"
    /\ result.riskFactors[3].factor = "Suspicious Iframes"
    /\ RuleOfReason(result.reasons[3].text) = 10

\* ------------------------------------------------------------------------
\* Properties of the command line (SpecMain)
\* ------------------------------------------------------------------------
Exited == pc \in {"exit0", "exit1"}

\* C18: in main, cleanup is automatic on failure: whenever scan or the report
\* generation throws, cleanup() has closed the scanner's browser before the
\* process exits, as it has after a successful scan.
C18_CleanupOnFailure == Exited => browser # "open"

\* ------------------------------------------------------------------------
\* Properties of the server (SpecServer)
\* ------------------------------------------------------------------------
Answered(r) == requests[r].pc = "answered"
\* the page scan and the signal collection of the request completed without error
ScanCompleted(r) == requests[r].result # NoResult
InFlight(r) == requests[r].pc \notin {"none", "answered"}
\* the function under the wrappers of bind
Unbound(fn) == [fn EXCEPT !.bound = 0]

\* C17: every GET /scan request whose page scan and signal collection
\* complete without error is answered with a success response that has a
\* reportUrl field.
C17_ScanAnsweredWithReport ==
    \A r \in Requests :
        (Answered(r) /\ ScanCompleted(r)) => requests[r].response = Response(200, TRUE)

\* C20: the server replaces scanner.scan only temporarily: whatever requests
\* came, overlapping or failing, once none is in flight scanner.scan is the
\* original scan method again (directly or bound to the scanner).
C20_ScanRestored ==
    (\A r \in Requests : ~InFlight(r)) => Unbound(scannerScan) = OriginalScan

\* ------------------------------------------------------------------------
\* The endpoint's scoring against scan's (SpecCompare)
\* ------------------------------------------------------------------------
BothScored == Scored /\ requests[1].result # NoResult

\* C21: the /scan endpoint and the command line scan apply the same rule
\* set: on the same page features and the same signals the score of the
\* server's scan equals the score of VibeSniffScanner.scan.
C21_SameScore == BothScored => requests[1].result.score = result.score

\* ------------------------------------------------------------------------
\* Pages (SpecPages)
\* ------------------------------------------------------------------------
\* C22: every page a scan opened (scan of the command line or the server's
\* replacement) is closed when the call returns or throws, whichever step
\* failed; after completed scans none of their pages is open; page.close()
\* is reached only with a page that was opened.
C22_PagesClosed ==
    /\ pc \in {"done", "threw"} => ~pageOpen
    /\ pc \in {"closing", "failing"} => pageOpen
    /\ \A r \in Requests :
         /\ requests[r].pc \in {"none", "mkdir", "newPage", "returned", "rejected",
                                "answered"} => ~requests[r].pageOpen
         /\ requests[r].pc \in {"closing", "failing"} => requests[r].pageOpen

C22_Witness ==
    /\ pc = "done" /\ ~pageOpen /\ Scored
    /\ requests[1].pc = "answered" /\ requests[1].result = NoResult
    /\ requests[1].response = Response(500, FALSE) /\ ~requests[1].pageOpen
    /\ requests[2].pc = "failing" /\ requests[2].pageOpen

\* the request called scanner.scan
Called(r) == requests[r].pc \notin {"none", "mkdir"} /\ requests[r].response.status # 400

\* C23: with any interleaving of concurrent GET /scan requests on the one
\* scanner, each request runs the closure it installed itself, and the
\* screenshot its result names is the one of its own screenshotId.
C23_OwnClosure ==
    \A r \in Requests :
        /\ Called(r) => requests[r].runs = Closure(r)
        /\ ScanCompleted(r) => requests[r].result.screenshot = r

C23_Witness ==
    /\ scannerScan = Closure(2)
    /\ requests[2].pc = "screenshot" /\ requests[2].runs = Closure(2)
    /\ requests[1].pc = "closing" /\ requests[1].runs = Closure(1)
    /\ requests[1].result.screenshot = 1
    /\ requests[2].originalScan = Bind(Closure(1))

\* ------------------------------------------------------------------------
\* The promise of getTLSAge (SpecFair)
\* ------------------------------------------------------------------------
\* what the first event on the socket makes of the lookup: the age for a
\* handshake with a certificate that has a valid_from, else null
FirstEventValue ==
    IF /\ reply.tls.kind = "secureConnect"
       /\ reply.tls.cert.present
       /\ reply.tls.cert.valid_from # Absent
    THEN AgeInDays(reply.tls.cert.valid_from, Now)
    ELSE Null

\* C24: the promise of getTLSAge settles exactly once, with the outcome of
\* the first of handshake, socket error, timeout and synchronous exception;
\* a later event does not change the delivered value; it never rejects.
C24_SettlesOnce ==
    /\ [][promise.tlsAge.state = "fulfilled" => promise'.tlsAge = promise.tlsAge]_vars
    /\ [](promise.tlsAge.state # "rejected")
    /\ [](promise.tlsAge.state = "fulfilled" =>
            /\ reply.tls.kind \in {"secureConnect", "error", "timeout", "connectThrew"}
            /\ promise.tlsAge.value = FirstEventValue)
    /\ (promise.tlsAge.state = "pending") ~> (promise.tlsAge.state = "fulfilled")

\* a timeout or an error after a handshake that delivered an age
C24_Witness ==
    /\ reply.tls.kind = "secureConnect"
    /\ promise.tlsAge = Fulfilled(Num(2))
    /\ socket = "destroyed"

\* ------------------------------------------------------------------------
\* The first-archived signal (SpecCompare)
\* ------------------------------------------------------------------------
\* what getWaybackFirstSeen can deliver: null or a number of days
WaybackValues == {Null, Num(0), Num(6), Num(400)}

\* the signals of the other scan: the same but for waybackFirstSeen
OtherScan(w) == [signals EXCEPT !.waybackFirstSeen = w]

\* C25: two scans whose inputs differ only in waybackFirstSeen (null or not)
\* have the same score, riskLevel, reasons and riskFactors, in the scanner
\* and in the server's replacement; the value itself is reported.
C25_WaybackNotScored ==
    /\ Scored =>
         /\ result.waybackFirstSeenDays = signals.waybackFirstSeen
         /\ \A w \in WaybackValues :
              LET other == ScoreResult(features, OtherScan(w))
              IN  /\ other.score = result.score
                  /\ other.riskLevel = result.riskLevel
                  /\ other.reasons = result.reasons
                  /\ other.riskFactors = result.riskFactors
                  /\ other.waybackFirstSeenDays = w
    /\ requests[1].result # NoResult =>
         /\ requests[1].result.waybackFirstSeenDays = signals.waybackFirstSeen
         /\ \A w \in WaybackValues :
              LET other == SrvScoreResult(requests[1].features, OtherScan(w), 1)
              IN  /\ other.score = requests[1].result.score
                  /\ other.reasons = requests[1].result.reasons
                  /\ other.waybackFirstSeenDays = w

\* both scorings done on a page that fired rules and was archived 400 days ago
C25_Witness ==
    /\ BothScored
    /\ signals.waybackFirstSeen = Num(400)
    /\ result.waybackFirstSeenDays = Num(400)
    /\ requests[1].result.waybackFirstSeenDays = Num(400)
    /\ result.score > 0
    /\ requests[1].result.score > 0

\* ------------------------------------------------------------------------
\* From the forms of a page to its score
\* ------------------------------------------------------------------------
\* action.includes('javascript:') || action.includes('data:')
IncludesScriptScheme(action) ==
    action.kind = "opaque" /\ action.scheme \in {"javascript", "data"}

\* the analyses of a page whose password inputs have these form actions: the
\* flags of the form analysis, a pattern pushed for every form with a
\* javascript: or data: action, and the GET pattern for any form of the page
PageFeatures(form, actions) ==
    {f \in FeatureSet :
        /\ f.hasPasswordForm = form.hasPasswordForm
        /\ f.hasActionMismatch = form.hasActionMismatch
        /\ (\E i \in 1..Len(actions) : IncludesScriptScheme(actions[i]))
             => (\E k \in 1..Len(f.suspiciousFormPatterns) :
                   f.suspiciousFormPatterns[k] = ActionPattern)
        /\ f.externalHostsCount = 8
        /\ f.foundSuspiciousKeywords = 3
        /\ f.suspiciousLinkPatterns = 0
        /\ ~f.hasPopups /\ ~f.hasRedirects
        /\ f.suspiciousIframes = 0}

\* the rest of the page analysis, after the password inputs
AnalyseRest ==
    /\ pc = "analysed"
    /\ features' \in PageFeatures(features, dom)
    /\ pc' = "awaiting"
    /\ UNCHANGED <<pageOpen, promise, socket, reply, signals, result, shell>>

\* const [domainAge, tlsAge, waybackFirstSeen] = await Promise.all([...])
LookupsDeliver(S) ==
    /\ pc = "awaiting"
    /\ signals' \in S
    /\ pc' = "scoring"
    /\ UNCHANGED <<pageOpen, features, promise, socket, reply, result, shell>>

FormScoreNext ==
    \/ ParsePageUrl
    \/ AnalyseForms
    \/ AnalyseRest
    \/ LookupsDeliver(RescanSignals)
    \/ Score

SpecFormScore == FormsInit /\ [][FormScoreNext]_vars

\* C26: a result whose riskFactors has 'Action Mismatch' has 'Password Form'
\* earlier in the sequence, a score of at least 0.45 and a riskLevel that is
\* not LOW.
C26_MismatchAfterPassword ==
    Scored =>
        \A i \in FactorsNamed("Action Mismatch") :
            /\ \E j \in FactorsNamed("Password Form") : j < i
            /\ result.score >= 45
            /\ result.riskLevel # "LOW"

\* a page with a password form posting to another site and nothing else: 0.45
C26_Witness ==
    /\ Scored
    /\ url = AbsoluteUrl("https", <<"a", ".", "b">>)
    /\ dom = <<AbsoluteUrl("https", <<"b", ".", "a">>)>>
    /\ FactorsNamed("Action Mismatch") = {2}
    /\ FactorsNamed("Password Form") = {1}
    /\ result.score = 45
    /\ result.riskLevel = "MEDIUM"

====
